---- MODULE Spec2Model ----
(***************************************************************************)
(* Model of two components of the backup engine's infrastructure layer:    *)
(*   - BackRest::ThreadGroup (new / add / complete / kill)                 *)
(*   - the file descriptor read driver (ioFdReadNew / ioFdRead /           *)
(*     ioFdReadEof / ioFdReadFd)                                           *)
(* The two components share no state.  Spec runs the thread group,         *)
(* ReadSpec runs the read driver.                                          *)
(***************************************************************************)
EXTENDS Integers, Sequences, FiniteSets, TLC

(***************************************************************************)
(* Bounds of the model                                                     *)
(***************************************************************************)
MaxThreads == 2          \* most threads ever added to the group
MaxTime == 1             \* last value of the wall clock time()
MaxBuf == 3              \* largest buffer size handed to ioFdRead
MaxTimeoutMs == 1        \* largest timeout (ms) a read driver is created with

Undef == 0 - 1           \* Perl undef for numeric values / cleared slot

VARIABLES
    \* ---- ThreadGroup object
    iThreadTotal,        \* $self->{iThreadTotal}
    oyThread,            \* $self->{oyThread}: sequence, slot i is oyThread[i + 1]
    \* ---- threads (external thread handles)
    threadState,         \* thread id -> "None" | "Running" | "JoinableSuccess" | "JoinableError" | "Terminated"
    threadJoin,          \* thread id -> number of join() calls made on it
    threadKill,          \* thread id -> number of kill('KILL') calls made on it
    now,                 \* time()
    \* ---- locals of complete()
    pc,                  \* "idle" | "while" | "sleep" | "error" | "joinable"
    iTimeout,            \* $iTimeout (Undef when not passed)
    bConfessOnError,     \* $bConfessOnError after the defaults line: "undef" | "true" | "false"
    iThreadComplete,     \* $iThreadComplete
    lTimeBegin,          \* $lTimeBegin
    iThreadIdx,          \* $iThreadIdx of complete's for loop
    \* ---- what the caller saw
    argConfess,          \* the $bConfessOnError argument as passed: "undef" | "true" | "false"
    lastOp,              \* last call that ended: "new" | "add" | "complete" | "kill"
    result,              \* outcome of the last complete: "none" | "true" | "false" | "WorkerFailureError" | "GroupTimeoutError"
    iTotal,              \* value the last direct kill call returned
    errThread,           \* thread number named in the 'error in thread' message
    errSlot,             \* slot in which complete found the stored error
    addReturn,           \* thread id -> value add returned for it
    begun,               \* complete and kill calls begun on this group so far: 0, 1, 2 = more than one
    oErrThread,          \* the thread whose error() complete found defined
    seen,                \* record of what complete did, see GroupInit
    killsInRow,          \* direct kill calls since the last add or complete: 0, 1, 2 = more than one
    \* ---- read driver
    rd                   \* record, see ReadInit

groupVars == <<iThreadTotal, oyThread, threadState, threadJoin, threadKill, now, pc, iTimeout,
               bConfessOnError, iThreadComplete, lTimeBegin, iThreadIdx, argConfess, lastOp,
               result, errThread, errSlot, addReturn, begun, oErrThread, killsInRow, iTotal,
               seen>>
vars == <<groupVars, seen, rd>>

Threads == 1..MaxThreads
TimeoutArgs == {Undef} \cup (0..MaxTime)
ConfessArgs == {"undef", "true", "false"}

(***************************************************************************)
(* Thread handle (threads.pm) as ThreadGroup uses it                       *)
(***************************************************************************)
is_running(st) == st = "Running"
is_joinable(st) == st \in {"JoinableSuccess", "JoinableError"}
errorDefined(st) == st = "JoinableError"

Slot(i) == oyThread[i + 1]
SlotDefined(i) == Slot(i) # Undef
Occupied == {i \in 0..(iThreadTotal - 1) : SlotDefined(i)}

(***************************************************************************)
(* ThreadGroup::new                                                        *)
(***************************************************************************)
GroupInit ==
    /\ iThreadTotal = 0
    /\ oyThread = <<>>
    /\ threadState = [t \in Threads |-> "None"]
    /\ threadJoin = [t \in Threads |-> 0]
    /\ threadKill = [t \in Threads |-> 0]
    /\ now = 0
    /\ pc = "idle"
    /\ iTimeout = Undef
    /\ bConfessOnError = "undef"
    /\ iThreadComplete = 0
    /\ lTimeBegin = 0
    /\ iThreadIdx = 0
    /\ argConfess = "undef"
    /\ lastOp = "new"
    /\ result = "none"
    /\ errThread = Undef
    /\ errSlot = Undef
    /\ addReturn = [t \in Threads |-> Undef]
    /\ begun = 0
    /\ oErrThread = Undef
    /\ killsInRow = 0
    /\ iTotal = Undef
    /\ seen = [joinLog |-> <<>>,        \* slots the last complete call joined, one sequence per pass that joined
               passJoined |-> FALSE,   \* the current pass has joined a thread
               timeoutSaw |-> {}]      \* states of the threads in occupied slots when the timeout was raised

(***************************************************************************)
(* The threads run on their own: a running thread ends normally or dies,   *)
(* and is joinable afterwards; error() is defined once it has died.        *)
(***************************************************************************)
ThreadExit(t) ==
    /\ threadState[t] = "Running"
    /\ threadState' = [threadState EXCEPT ![t] = "JoinableSuccess"]
    /\ UNCHANGED <<iThreadTotal, oyThread, threadJoin, threadKill, now, pc, iTimeout,
                   bConfessOnError, iThreadComplete, lTimeBegin, iThreadIdx, argConfess,
                   lastOp, result, errThread, errSlot, addReturn, begun, oErrThread, killsInRow, iTotal, seen, rd>>

ThreadDie(t) ==
    /\ threadState[t] = "Running"
    /\ threadState' = [threadState EXCEPT ![t] = "JoinableError"]
    /\ UNCHANGED <<iThreadTotal, oyThread, threadJoin, threadKill, now, pc, iTimeout,
                   bConfessOnError, iThreadComplete, lTimeBegin, iThreadIdx, argConfess,
                   lastOp, result, errThread, errSlot, addReturn, begun, oErrThread, killsInRow, iTotal, seen, rd>>

\* time() moves on; complete reads it when called and after each sleep(.1), so
\* the clock is stepped where it is read next
Tick ==
    /\ pc = "sleep"
    /\ now < MaxTime
    /\ now' = now + 1
    /\ UNCHANGED <<iThreadTotal, oyThread, threadState, threadJoin, threadKill, pc, iTimeout,
                   bConfessOnError, iThreadComplete, lTimeBegin, iThreadIdx, argConfess,
                   lastOp, result, errThread, errSlot, addReturn, begun, oErrThread, killsInRow, iTotal, seen, rd>>

(***************************************************************************)
(* ThreadGroup::add                                                        *)
(***************************************************************************)
\* faulty variant: the thread is put in front, the others move up
AddStoreFront(oy, total, oThread) == <<oThread>> \o oy
AddStore(oy, total, oThread) ==
    [k \in 1..(total + 1) |-> IF k = total + 1 THEN oThread ELSE oy[k]]
\* faulty variant: returns the new total instead of the last index
AddReturnValueOffByOne(total) == total
AddReturnValue(total) == total - 1

add ==
    /\ pc = "idle"
    /\ iThreadTotal < MaxThreads
    /\ LET oThread == iThreadTotal + 1        \* the next thread the caller created
       IN  /\ oyThread' = AddStore(oyThread, iThreadTotal, oThread)
           /\ iThreadTotal' = iThreadTotal + 1
           /\ threadState' = [threadState EXCEPT ![oThread] = "Running"]
           /\ addReturn' = [addReturn EXCEPT ![oThread] = AddReturnValue(iThreadTotal')]
    /\ lastOp' = "add"
    /\ result' = "none"
    /\ killsInRow' = 0
    /\ UNCHANGED <<threadJoin, threadKill, now, pc, iTimeout, bConfessOnError,
                   iThreadComplete, lTimeBegin, iThreadIdx, argConfess, errThread, errSlot,
                   begun, oErrThread, iTotal, seen, rd>>

(***************************************************************************)
(* ThreadGroup::kill: its effect on one slot and on the whole group        *)
(***************************************************************************)
\* faulty variant: joins finished threads but leaves running ones alone
KillStateJoinOnly(st) == IF is_joinable(st) THEN "Terminated" ELSE st
KillState(st) == IF is_running(st) \/ is_joinable(st) THEN "Terminated" ELSE st
KillSignals(st) == IF is_running(st) THEN 1 ELSE 0
\* faulty variant: only the threads that were killed are joined
KillJoinsRunningOnly(st) == IF is_running(st) THEN 1 ELSE 0
KillJoins(st) == IF is_running(st) \/ is_joinable(st) THEN 1 ELSE 0
\* faulty variant: the slot is not cleared
KillSlotKeeps(slot) == slot
KillSlot(slot) == Undef

KillDefined(oy, total) == {i \in 0..(total - 1) : oy[i + 1] # Undef}
KillThreads(oy, total) == {oy[i + 1] : i \in KillDefined(oy, total)}
KillTotal(oy, total) == Cardinality(KillDefined(oy, total))
KillSlots(oy, total) ==
    [k \in 1..Len(oy) |-> IF (k - 1) \in KillDefined(oy, total) THEN KillSlot(oy[k]) ELSE oy[k]]

\* the part of kill that complete's error branch shares with a direct call
KillEffect ==
    /\ oyThread' = KillSlots(oyThread, iThreadTotal)
    /\ threadState' = [t \in Threads |->
                          IF t \in KillThreads(oyThread, iThreadTotal)
                          THEN KillState(threadState[t]) ELSE threadState[t]]
    /\ threadKill' = [t \in Threads |->
                          IF t \in KillThreads(oyThread, iThreadTotal)
                          THEN threadKill[t] + KillSignals(threadState[t]) ELSE threadKill[t]]
    /\ threadJoin' = [t \in Threads |->
                          IF t \in KillThreads(oyThread, iThreadTotal)
                          THEN threadJoin[t] + KillJoins(threadState[t]) ELSE threadJoin[t]]

kill ==
    /\ pc = "idle"
    /\ KillEffect
    /\ iTotal' = KillTotal(oyThread, iThreadTotal)
    /\ result' = "none"
    /\ lastOp' = "kill"
    /\ begun' = IF begun < 2 THEN begun + 1 ELSE begun
    /\ killsInRow' = IF killsInRow < 2 THEN killsInRow + 1 ELSE killsInRow
    /\ UNCHANGED <<iThreadTotal, now, pc, iTimeout, bConfessOnError, iThreadComplete,
                   lTimeBegin, iThreadIdx, argConfess, errThread, errSlot, addReturn,
                   oErrThread, seen, rd>>

(***************************************************************************)
(* ThreadGroup::complete                                                   *)
(***************************************************************************)
\* "Set defaults": defined($bConfessOnError) ? true : $bConfessOnError
ConfessDefault(arg) == IF arg # "undef" THEN "true" ELSE arg
\* Perl truth of the flag: undef and false are both false
Truthy(flag) == flag = "true"
\* the thread number written into 'error in thread N: check log for details'
ErrorThreadNumber(idx) == idx + 1
\* faulty variant: <= for <
WhileConditionInclusive(done, total) == done <= total
\* while ($iThreadComplete < $self->{iThreadTotal})
WhileCondition(done, total) == done < total
\* faulty variant: the timeout test is missing
TimedOutNever(timeout, begin, t) == FALSE
\* if (defined($iTimeout)) { if (time() - $lTimeBegin >= $iTimeout) ...
TimedOut(timeout, begin, t) == timeout # Undef /\ t - begin >= timeout

completeCall(timeoutArg, confessArg) ==
    /\ pc = "idle"
    /\ iTimeout' = timeoutArg
    /\ argConfess' = confessArg
    /\ bConfessOnError' = ConfessDefault(confessArg)
    /\ iThreadComplete' = 0
    /\ lTimeBegin' = now
    /\ iThreadIdx' = 0
    /\ result' = "none"
    /\ errThread' = Undef
    /\ errSlot' = Undef
    /\ oErrThread' = Undef
    /\ begun' = IF begun < 2 THEN begun + 1 ELSE begun
    /\ killsInRow' = 0
    /\ pc' = "while"
    /\ seen' = [joinLog |-> <<>>, passJoined |-> FALSE, timeoutSaw |-> {}]
    /\ UNCHANGED <<iThreadTotal, oyThread, threadState, threadJoin, threadKill, now, lastOp,
                   addReturn, iTotal, rd>>

\* the call ends: the caller has its outcome
CompleteEnds(outcome) ==
    /\ result' = outcome
    /\ pc' = "idle"
    /\ lastOp' = "complete"

\* the threads are left as they are
ThreadsUntouched == UNCHANGED <<oyThread, threadState, threadJoin, threadKill>>

\* loop test; falls out to 'all threads exited', return true
completeWhile ==
    /\ pc = "while"
    /\ IF WhileCondition(iThreadComplete, iThreadTotal)
       THEN /\ pc' = "sleep"
            /\ UNCHANGED <<result, lastOp>>
       ELSE CompleteEnds("true")
    /\ ThreadsUntouched
    /\ UNCHANGED <<iThreadTotal, now, iTimeout, bConfessOnError, iThreadComplete, lTimeBegin,
                   iThreadIdx, argConfess, errThread, errSlot, addReturn, begun, oErrThread,
                   killsInRow, iTotal, seen, rd>>

\* faulty variant: the timeout branch kills the group, as the error branch does
TimeoutCleanupKills == KillEffect

\* what the timeout branch does to the threads before it confesses: nothing, the
\* kill there is commented out
TimeoutCleanup == ThreadsUntouched

\* sleep(.1), then the timeout test, then the for loop starts at slot 0
completeTimeout ==
    /\ pc = "sleep"
    /\ IF TimedOut(iTimeout, lTimeBegin, now)
       THEN /\ TimeoutCleanup
            /\ CompleteEnds("GroupTimeoutError")
            /\ seen' = [seen EXCEPT !.timeoutSaw = {threadState[Slot(i)] : i \in Occupied}]
            /\ UNCHANGED iThreadIdx
       ELSE /\ ThreadsUntouched
            /\ seen' = [seen EXCEPT !.passJoined = FALSE]
            /\ iThreadIdx' = 0
            /\ pc' = IF 0 < iThreadTotal THEN "error" ELSE "while"
            /\ UNCHANGED <<result, lastOp>>
    /\ UNCHANGED <<iThreadTotal, now, iTimeout, bConfessOnError, iThreadComplete, lTimeBegin,
                   argConfess, errThread, errSlot, addReturn, begun, oErrThread, killsInRow,
                   iTotal, rd>>

\* faulty variant: the index wraps around and the pass goes on
NextSlotWraps ==
    /\ iThreadIdx' = (iThreadIdx + 1) % iThreadTotal
    /\ pc' = "error"

\* $iThreadIdx++ and the for loop's test
NextSlot ==
    /\ iThreadIdx' = iThreadIdx + 1
    /\ pc' = IF iThreadIdx + 1 < iThreadTotal THEN "error" ELSE "while"

\* one slot of the pass: defined(...) and defined(...->error())
completeError ==
    /\ pc = "error"
    /\ IF SlotDefined(iThreadIdx)
       THEN IF errorDefined(threadState[Slot(iThreadIdx)])
            THEN /\ KillEffect
                 /\ errSlot' = iThreadIdx
                 /\ oErrThread' = Slot(iThreadIdx)
                 /\ IF Truthy(bConfessOnError)
                    THEN /\ errThread' = ErrorThreadNumber(iThreadIdx)
                         /\ CompleteEnds("WorkerFailureError")
                    ELSE /\ errThread' = Undef
                         /\ CompleteEnds("false")
                 /\ UNCHANGED iThreadIdx
            ELSE /\ pc' = "joinable"
                 /\ ThreadsUntouched
                 /\ UNCHANGED <<iThreadIdx, result, lastOp, errThread, errSlot, oErrThread>>
       ELSE /\ NextSlot
            /\ ThreadsUntouched
            /\ UNCHANGED <<result, lastOp, errThread, errSlot, oErrThread>>
    /\ UNCHANGED <<iThreadTotal, now, iTimeout, bConfessOnError, iThreadComplete, lTimeBegin,
                   argConfess, addReturn, begun, killsInRow, iTotal, seen, rd>>

\* the same slot: is_joinable(), join(), undef, $iThreadComplete++
JoinSlot(slot) == Undef

\* the join of slot idx written to the log: into the current pass's sequence, or
\* into a new one when it is the pass's first
Logged(log, passJoined, idx) ==
    IF passJoined
    THEN [log EXCEPT ![Len(log)] = Append(@, idx)]
    ELSE Append(log, <<idx>>)

completeJoin ==
    /\ pc = "joinable"
    /\ LET t == Slot(iThreadIdx)
       IN  IF is_joinable(threadState[t])
           THEN /\ threadState' = [threadState EXCEPT ![t] = "Terminated"]
                /\ threadJoin' = [threadJoin EXCEPT ![t] = @ + 1]
                /\ oyThread' = [oyThread EXCEPT ![iThreadIdx + 1] = JoinSlot(@)]
                /\ iThreadComplete' = iThreadComplete + 1
                /\ seen' = [seen EXCEPT !.joinLog = Logged(@, seen.passJoined, iThreadIdx),
                                        !.passJoined = TRUE]
           ELSE UNCHANGED <<threadState, threadJoin, oyThread, iThreadComplete, seen>>
    /\ NextSlot
    /\ UNCHANGED <<iThreadTotal, threadKill, now, iTimeout, bConfessOnError, lTimeBegin,
                   argConfess, lastOp, result, errThread, errSlot, addReturn, begun,
                   oErrThread, killsInRow, iTotal, rd>>

(***************************************************************************)
(* File descriptor read driver                                             *)
(***************************************************************************)
FdArgs == {0 - 2, 0 - 1, 0, 1}
ReadTimeouts == 0..MaxTimeoutMs

\* before ioFdReadNew: no driver yet
ReadInit ==
    rd = [made |-> FALSE,          \* a driver exists
          debug |-> FALSE,         \* build with ASSERT() compiled in
          fd |-> 0,                \* this->fd
          timeout |-> 0,           \* this->timeout
          eof |-> FALSE,           \* this->eof
          rpc |-> "idle",          \* "idle" | "select" | "read": where ioFdRead is
          block |-> FALSE,         \* parameter block
          actualBytes |-> 0,       \* local actualBytes
          bufSize |-> 0,           \* buffer size
          bufUsed |-> 0,           \* buffer used
          usedBegin |-> 0,         \* buffer used when the call began
          eofBegin |-> FALSE,      \* this->eof when the call began
          out |-> "none",          \* how the last call ended: "none" | "return" | "throw"
          ret |-> 0,               \* value returned
          errType |-> "none",      \* error type thrown
          errMsg |-> "none",       \* which message the error has
          selects |-> 0,           \* select() calls made by the call
          reads |-> 0,             \* read() calls made by the call
          waited |-> 0,            \* ms spent in select() by the call
          lastSelect |-> 2]        \* what the call's last select() returned, 2 before any

\* ASSERT(fd != -1), then the driver is allocated; .eof starts false
NewAssert(dbg, fd) == dbg /\ fd = 0 - 1

ioFdReadNew(dbg, fd, timeout) ==
    /\ ~rd.made
    /\ rd.out = "none"
    /\ IF NewAssert(dbg, fd)
       THEN rd' = [rd EXCEPT !.debug = dbg, !.out = "throw", !.errType = "AssertError",
                             !.errMsg = "assertion 'fd != -1' failed"]
       ELSE rd' = [rd EXCEPT !.debug = dbg, !.made = TRUE, !.fd = fd, !.timeout = timeout,
                             !.eof = FALSE]
    /\ UNCHANGED groupVars

bufRemains(size, usedBytes) == size - usedBytes
bufFull(size, usedBytes) == usedBytes = size

\* faulty variant: the end-of-stream test is missing
ReadEntersAlways(eofFlag) == TRUE
\* if (!this->eof)
ReadEnters(eofFlag) == ~eofFlag
\* faulty variant: the loop repeats for a non-blocking call too
ReadAgainIgnoresBlock(remains, eofFlag, block) == remains > 0 /\ ~eofFlag
\* faulty variant: the loop never repeats
ReadAgainNever(remains, eofFlag, block) == FALSE
\* while (bufRemains(buffer) > 0 && !this->eof && block)
ReadAgain(remains, eofFlag, block) == remains > 0 /\ ~eofFlag /\ block
\* FUNCTION_LOG_RETURN(SIZE, (size_t)actualBytes)
ReadReturnValue(actualBytes, usedBegin, usedEnd) == actualBytes
\* if (actualBytes == 0) this->eof = true
EofAfterRead(eofFlag, actualBytes) == IF actualBytes = 0 THEN TRUE ELSE eofFlag

\* the call is made with a buffer that is not full (ASSERT(!bufFull(buffer))), on a
\* driver whose descriptor select() can take ("We know the file descriptor is not
\* negative because it passed error handling")
ioFdReadCall(size, usedBytes, block) ==
    /\ rd.made
    /\ rd.fd >= 0
    /\ rd.rpc = "idle"
    /\ usedBytes <= size
    /\ ~bufFull(size, usedBytes)
    /\ LET r == [rd EXCEPT !.block = block, !.actualBytes = 0, !.bufSize = size,
                           !.bufUsed = usedBytes, !.usedBegin = usedBytes,
                           !.eofBegin = rd.eof, !.out = "none", !.ret = 0,
                           !.errType = "none", !.errMsg = "none", !.selects = 0,
                           !.reads = 0, !.waited = 0, !.lastSelect = 2]
       IN  IF ReadEnters(rd.eof)
           THEN rd' = [r EXCEPT !.rpc = "select"]
           ELSE rd' = [r EXCEPT !.out = "return",
                                !.ret = ReadReturnValue(0, usedBytes, usedBytes)]
    /\ UNCHANGED groupVars

\* the error type of each THROW in ioFdRead
SelectErrorType == "FileReadError"
\* faulty variant: a type of its own for the timeout
TimeoutErrorTypeOwn == "ReadTimeoutError"
TimeoutErrorType == "FileReadError"
ReadErrorType == "FileReadError"
TimeoutMessage == "unable to read data from after ms"

\* faulty variant: a wait that reports nothing to read lasts past the timeout
SelectWaitLong(res, timeout, wait) == IF res = 0 THEN timeout + 1 ELSE wait
\* select(): res is -1 (error), 0 (nothing to read after the timeout) or 1 (readable
\* after waiting wait ms); the timeout struct is rebuilt from this->timeout each time
SelectWait(res, timeout, wait) == IF res = 0 THEN timeout ELSE wait

ioFdReadSelect(res, wait) ==
    /\ rd.rpc = "select"
    /\ wait <= rd.timeout
    /\ LET r == [rd EXCEPT !.selects = @ + 1, !.lastSelect = res,
                           !.waited = @ + SelectWait(res, rd.timeout, wait)]
       IN  CASE res = 0 - 1 ->
                  rd' = [r EXCEPT !.rpc = "idle", !.out = "throw",
                                  !.errType = SelectErrorType,
                                  !.errMsg = "unable to select from"]
             [] res = 0 ->
                  rd' = [r EXCEPT !.rpc = "idle", !.out = "throw",
                                  !.errType = TimeoutErrorType,
                                  !.errMsg = TimeoutMessage]
             [] OTHER ->
                  rd' = [r EXCEPT !.rpc = "read"]
    /\ UNCHANGED groupVars

\* read(): n is -1 (error) or the number of bytes read, 0 at the end of the stream
ioFdReadRead(n) ==
    /\ rd.rpc = "read"
    /\ n <= bufRemains(rd.bufSize, rd.bufUsed)
    /\ IF n = 0 - 1
       THEN rd' = [rd EXCEPT !.reads = @ + 1, !.rpc = "idle", !.out = "throw",
                             !.errType = ReadErrorType,
                             !.errMsg = "unable to read from"]
       ELSE LET usedEnd == rd.bufUsed + n
                eofEnd == EofAfterRead(rd.eof, n)
                r == [rd EXCEPT !.reads = @ + 1, !.actualBytes = n, !.bufUsed = usedEnd,
                                !.eof = eofEnd]
            IN  IF ReadAgain(bufRemains(rd.bufSize, usedEnd), eofEnd, rd.block)
                THEN rd' = [r EXCEPT !.rpc = "select"]
                ELSE rd' = [r EXCEPT !.rpc = "idle", !.out = "return",
                                     !.ret = ReadReturnValue(n, rd.usedBegin, usedEnd)]
    /\ UNCHANGED groupVars

\* ioFdReadEof and ioFdReadFd read the driver and change nothing
ioFdReadEof == rd.eof
ioFdReadFd == rd.fd

(***************************************************************************)
(* Specifications                                                          *)
(***************************************************************************)
Init == GroupInit /\ ReadInit

Next ==
    \/ add
    \/ kill
    \/ \E timeoutArg \in TimeoutArgs, confessArg \in ConfessArgs : completeCall(timeoutArg, confessArg)
    \/ completeWhile
    \/ completeTimeout
    \/ completeError
    \/ completeJoin
    \/ \E t \in Threads : ThreadExit(t)
    \/ \E t \in Threads : ThreadDie(t)
    \/ Tick

Spec == Init /\ [][Next]_vars

ReadNext ==
    \/ \E dbg \in BOOLEAN, fd \in FdArgs, timeout \in ReadTimeouts : ioFdReadNew(dbg, fd, timeout)
    \/ \E size \in 1..MaxBuf, usedBytes \in 0..MaxBuf, block \in BOOLEAN : ioFdReadCall(size, usedBytes, block)
    \/ \E res \in {0 - 1, 0, 1}, wait \in 0..MaxTimeoutMs : ioFdReadSelect(res, wait)
    \/ \E n \in (0 - 1)..MaxBuf : ioFdReadRead(n)

ReadSpec == Init /\ [][ReadNext]_vars

\* the supervising thread keeps running, and every running thread ends
LiveSpec ==
    /\ Init
    /\ [][Next]_vars
    /\ WF_vars(completeWhile)
    /\ WF_vars(completeTimeout)
    /\ WF_vars(completeError)
    /\ WF_vars(completeJoin)
    /\ \A t \in Threads : WF_vars(ThreadExit(t) \/ ThreadDie(t))

(***************************************************************************)
(* Properties                                                              *)
(***************************************************************************)
AllSlotsEmpty == Occupied = {}
NoThreadLeft == \A t \in Threads : threadState[t] \in {"None", "Terminated"}
\* the last call was complete and it ended because it found a stored error
FoundError == pc = "idle" /\ lastOp = "complete" /\ errSlot # Undef

\* C1: every ioFdRead call that returns gives back the number of bytes it appended
\* to the buffer (used after minus used before), also when a blocking call made
\* several reads.
C1_ReturnIsBytesAppended ==
    rd.out = "return" => rd.ret = rd.bufUsed - rd.usedBegin

\* C2: complete called with failFast = false that finds a stored error returns
\* false and does not raise.
C2_NoFailFastReturnsFalse ==
    (FoundError /\ argConfess = "false") => result = "false"

\* C3 (as amended): complete called with failFast = true that finds a stored error
\* raises WorkerFailureError, and the thread number in the message is the slot
\* index add returned for the failing thread plus one.
C3_FailFastRaisesThreadNumber ==
    (FoundError /\ argConfess = "true") =>
        /\ result = "WorkerFailureError"
        /\ errThread = addReturn[oErrThread] + 1
        /\ errSlot = addReturn[oErrThread]

\* C3 as stated: the index named in the error equals the slot index add returned.
C3_FailFastRaisesSlotIndex ==
    (FoundError /\ argConfess = "true") =>
        /\ result = "WorkerFailureError"
        /\ errThread = addReturn[oErrThread]

C3_Witness ==
    /\ FoundError
    /\ argConfess = "true"
    /\ result = "WorkerFailureError"
    /\ errSlot = 1
    /\ threadKill[1] = 1

\* C4: complete called without the failFast argument raises WorkerFailureError
\* when it finds a stored error.
C4_DefaultIsFailFast ==
    (FoundError /\ argConfess = "undef") => result = "WorkerFailureError"

\* C5: when complete has ended because it found a stored error, raising or
\* returning false, every slot is empty and no thread of the group is running
\* or waiting to be joined.
C5_ErrorKillsGroup ==
    FoundError => (result \in {"WorkerFailureError", "false"} /\ AllSlotsEmpty /\ NoThreadLeft)

C5_Witness ==
    /\ FoundError
    /\ iThreadTotal = 2
    /\ threadKill[1] = 1
    /\ threadState[1] = "Terminated"
    /\ AllSlotsEmpty

\* C6: a complete call that raises GroupTimeoutError has sent no kill: no step of
\* a call sends one unless it ends the call on a stored error, and the step that
\* raises GroupTimeoutError leaves every slot and every thread as it was, so a
\* thread running in an occupied slot is still running in that slot after the raise.
C6_TimeoutKillsNothing ==
    [][/\ (pc # "idle" /\ result' \notin {"WorkerFailureError", "false"}) =>
             threadKill' = threadKill
       /\ (pc = "sleep" /\ result' = "GroupTimeoutError") =>
             /\ threadKill' = threadKill
             /\ threadJoin' = threadJoin
             /\ \A i \in Occupied :
                   /\ oyThread'[i + 1] = oyThread[i + 1]
                   /\ is_running(threadState[Slot(i)]) => is_running(threadState'[Slot(i)])]_vars

C6_Witness ==
    /\ pc = "idle"
    /\ lastOp = "complete"
    /\ result = "GroupTimeoutError"
    /\ \E i \in Occupied : is_running(threadState[Slot(i)])

\* C7: on a fresh group with N >= 0 threads added, if no thread dies then
\* complete() without timeout returns true; whenever complete returns true no slot
\* is occupied; and with no thread in the group complete never gets to sleep.
FreshCall == pc # "idle" /\ begun = 1 /\ iTimeout = Undef
FreshCallTrue ==
    pc = "idle" /\ begun = 1 /\ lastOp = "complete" /\ result = "true" /\ AllSlotsEmpty
NoThreadDied == \A t \in Threads : threadState[t] # "JoinableError"

C7_AllSucceedReturnsTrue ==
    /\ []((pc = "idle" /\ lastOp = "complete" /\ result = "true") => AllSlotsEmpty)
    /\ [](pc = "sleep" => iThreadTotal > 0)
    /\ ([]NoThreadDied) => (FreshCall ~> FreshCallTrue)

C7_Witness ==
    /\ FreshCallTrue
    /\ iThreadTotal = 2
    /\ iThreadComplete = 2
    /\ threadJoin[1] = 1 /\ threadJoin[2] = 1

\* C8: a kill call right after another kill call, and a kill call on a group with
\* no occupied slot, returns 0 and changes no slot and no thread.
C8_KillIdempotent ==
    [][(kill /\ (killsInRow >= 1 \/ AllSlotsEmpty)) =>
          /\ iTotal' = 0
          /\ UNCHANGED <<iThreadTotal, oyThread, threadState, threadJoin, threadKill>>]_vars

C8_Witness ==
    /\ killsInRow = 2
    /\ iTotal = 0
    /\ iThreadTotal = 2
    /\ threadKill[1] = 1

\* C9: once this->eof is set it stays set, and a call made with it set returns 0
\* at once: no select(), no read(), buffer unchanged, ioFdReadEof still true.
C9_EofLatched ==
    /\ [][rd.eof => rd'.eof]_vars
    /\ [](rd.eofBegin =>
            /\ rd.rpc = "idle" /\ rd.out = "return"
            /\ rd.ret = 0
            /\ rd.selects = 0 /\ rd.reads = 0
            /\ rd.bufUsed = rd.usedBegin
            /\ ioFdReadEof)

C9_Witness ==
    rd.eofBegin /\ rd.out = "return" /\ rd.ret = 0 /\ rd.bufSize = 2 /\ rd.bufUsed = 1

\* C10: a blocking ioFdRead call that returns has filled the buffer or reached
\* the end of the stream.
C10_BlockingFillsOrEof ==
    (rd.out = "return" /\ rd.block) =>
        (bufRemains(rd.bufSize, rd.bufUsed) = 0 \/ rd.eof)

C10_Witness ==
    /\ rd.out = "return" /\ rd.block
    /\ rd.reads = 2
    /\ bufFull(rd.bufSize, rd.bufUsed)
    /\ ~rd.eof

\* the last ioFdRead call threw because select() found nothing to read in time
TimeoutThrown == rd.made /\ rd.out = "throw" /\ rd.lastSelect = 0
\* the last ioFdRead call threw because select() or read() failed
SysErrorThrown == rd.made /\ rd.out = "throw" /\ rd.lastSelect # 0

\* C11 (as amended): a read whose wait ends with nothing to read throws
\* FileReadError with the 'unable to read data ... after ... ms' message; a failing
\* select() or read() throws FileReadError too, with another message: the two
\* differ in the message, not in the error type.
C11_TimeoutIsFileReadError ==
    /\ TimeoutThrown => (rd.errType = "FileReadError" /\ rd.errMsg = TimeoutMessage)
    /\ SysErrorThrown => (rd.errType = "FileReadError" /\ rd.errMsg # TimeoutMessage)

\* C11 as stated: the timeout has an error type that an OS-level failure of
\* select() or read() does not have.
C11_TimeoutTypeDiffers ==
    TimeoutThrown => (rd.errType # SelectErrorType /\ rd.errType # ReadErrorType)

C11_Witness ==
    TimeoutThrown /\ rd.errType = "FileReadError" /\ rd.selects = 1 /\ rd.waited = 1

\* C12 (as amended): the timeout is armed for every select(): each wait of a call
\* lasts at most this->timeout, so a call that waits k times waits at most k
\* timeouts in all; a non-blocking call waits once.
C12_TimeoutPerSelect ==
    /\ rd.waited <= rd.selects * rd.timeout
    /\ (~rd.block) => rd.selects <= 1

\* C12 as stated: the waits of one call add up to at most one timeout.
C12_TimeoutPerCall == rd.waited <= rd.timeout

C12_Witness ==
    rd.block /\ rd.selects = 2 /\ rd.timeout = 1 /\ rd.waited = 2 /\ rd.out = "return"

\* C13 (as amended): a call that throws the timeout error on its first wait, as a
\* non-blocking call always does, has delivered no byte; a blocking call that
\* throws it on a later wait leaves the bytes of its earlier reads in the buffer,
\* at least one for each of them.
C13_TimeoutAfterFirstWaitOnly ==
    TimeoutThrown =>
        /\ rd.reads = rd.selects - 1
        /\ rd.reads = 0 => rd.bufUsed = rd.usedBegin
        /\ (~rd.block) => rd.reads = 0
        /\ rd.bufUsed - rd.usedBegin >= rd.reads

\* C13 as stated: a call that throws the timeout error has delivered no byte.
C13_TimeoutDeliversNothing ==
    TimeoutThrown => rd.bufUsed = rd.usedBegin

C13_Witness ==
    TimeoutThrown /\ rd.block /\ rd.reads = 1 /\ rd.bufUsed = rd.usedBegin + 1

\* C14: every driver there is holds a descriptor that is not negative.
C14_DescriptorNotNegative ==
    rd.made => rd.fd >= 0

\* C15: after a kill call every slot is empty and every thread ever added has
\* been joined exactly once; no thread is ever joined twice.
Added == {t \in Threads : threadState[t] # "None"}

C15_JoinedExactlyOnce ==
    /\ \A t \in Threads : threadJoin[t] <= 1
    /\ (pc = "idle" /\ lastOp = "kill") =>
          (AllSlotsEmpty /\ \A t \in Added : threadJoin[t] = 1)

C15_Witness ==
    /\ pc = "idle" /\ lastOp = "kill"
    /\ begun = 2
    /\ iThreadTotal = 2
    /\ threadKill[1] = 1 /\ threadKill[2] = 0
    /\ threadJoin[1] = 1 /\ threadJoin[2] = 1

\* C16: a complete call without timeout that runs while every slot is empty
\* returns true.
C16_EmptyGroupReturnsTrue ==
    (pc # "idle" /\ iTimeout = Undef /\ AllSlotsEmpty) ~>
        (pc = "idle" /\ lastOp = "complete" /\ result = "true")

\* C17: complete raises GroupTimeoutError only when more than $iTimeout seconds
\* have passed since the call began and some slot is still occupied.
C17_TimeoutOnlyWhenExceeded ==
    (pc = "idle" /\ lastOp = "complete" /\ result = "GroupTimeoutError") =>
        (now - lTimeBegin > iTimeout /\ ~AllSlotsEmpty)

\* C19: the thread added by the k-th add call sits in slot k - 1 and nowhere else
\* until that slot is cleared, add returned k - 1 for it, and no step shortens
\* the array, moves a thread or refills a slot: a slot keeps its thread or
\* becomes undef, and add only appends.
C19_SlotsStable ==
    /\ [](/\ Len(oyThread) = iThreadTotal
          /\ \A k \in 1..Len(oyThread) : oyThread[k] \in {k, Undef}
          /\ \A t \in Added : addReturn[t] = t - 1)
    /\ [][/\ Len(oyThread') >= Len(oyThread)
          /\ \A k \in 1..Len(oyThread) : oyThread'[k] \in {oyThread[k], Undef}
          /\ add => (/\ Len(oyThread') = Len(oyThread) + 1
                     /\ \A k \in 1..Len(oyThread) : oyThread'[k] = oyThread[k])]_vars

C19_Witness ==
    /\ lastOp = "add"
    /\ begun = 2
    /\ iThreadTotal = 2
    /\ oyThread = <<Undef, 2>>
    /\ addReturn[2] = 1

\* C18: the slots joined in one pass of complete are joined in ascending index
\* order, each slot once in the call, and the passes follow one another: the
\* call's joins are ordered by pass, then by index.
Ascending(q) == \A a, b \in 1..Len(q) : a < b => q[a] < q[b]
RECURSIVE Flat(_)
Flat(log) == IF log = <<>> THEN <<>> ELSE Head(log) \o Flat(Tail(log))

C18_JoinsAscendInPass ==
    /\ [](/\ \A k \in 1..Len(seen.joinLog) :
                seen.joinLog[k] # <<>> /\ Ascending(seen.joinLog[k])
          /\ Len(Flat(seen.joinLog)) = iThreadComplete
          /\ \A a, b \in 1..Len(Flat(seen.joinLog)) :
                a # b => Flat(seen.joinLog)[a] # Flat(seen.joinLog)[b])
    /\ [][(pc = "joinable" /\ iThreadComplete' # iThreadComplete) =>
             /\ Flat(seen'.joinLog) = Append(Flat(seen.joinLog), iThreadIdx)
             /\ \A k \in 1..(Len(seen.joinLog) - 1) : seen'.joinLog[k] = seen.joinLog[k]]_vars

C18_Witness ==
    /\ pc = "idle" /\ lastOp = "complete" /\ result = "true"
    /\ seen.joinLog = <<<<0, 1>>>>

\* C20: a pass that begins with the timeout reached raises GroupTimeoutError and
\* joins and kills nothing, also when an occupied slot holds a thread that has
\* died or one that waits to be joined; the step that acts on a stored error is
\* taken inside a pass, after the timeout test let the pass begin.
C20_TimeoutTestedFirst ==
    [][/\ (pc = "sleep" /\ pc' # "sleep"
             /\ iTimeout # Undef /\ now - lTimeBegin >= iTimeout) =>
            /\ result' = "GroupTimeoutError"
            /\ pc' = "idle"
            /\ UNCHANGED <<oyThread, threadState, threadJoin, threadKill, iThreadComplete>>
       /\ (result' \in {"WorkerFailureError", "false"} /\ result = "none" /\ pc # "idle") =>
            pc = "error"
       /\ (pc = "sleep" /\ pc' = "error") =>
            ~(iTimeout # Undef /\ now - lTimeBegin >= iTimeout)]_vars

C20_Witness ==
    /\ pc = "idle" /\ lastOp = "complete" /\ result = "GroupTimeoutError"
    /\ seen.timeoutSaw = {"JoinableError", "JoinableSuccess"}
    /\ AllSlotsEmpty = FALSE
    /\ \A t \in Threads : threadJoin[t] = 0 /\ threadKill[t] = 0

====
